---------------------------- MODULE Spec2Model ----------------------------
(***************************************************************************)
(* Model of attentions.py: the scaling functions, the adaptive-temperature *)
(* softmax, the base causal attention module and its seven variants.       *)
(*                                                                         *)
(* Tensors are functions over 0-based index ranges.  A float is an integer *)
(* count of 1/SCALE units (round to nearest) in -BIG..BIG, or one of the   *)
(* codes FMAX (torch.finfo(dtype).max), INF, NAN, with -FMAX and -INF.     *)
(* OVF marks a finite float whose magnitude lies outside the range the     *)
(* model represents; NoOVF states that no reachable state holds one.       *)
(***************************************************************************)
EXTENDS Integers, Sequences, FiniteSets, TLC

\* ---------------------------------------------------------------------
\* float32 values
\* ---------------------------------------------------------------------
K3    == 1000
SCALE == K3 * K3
BIG   == K3 * SCALE
FMAX  == BIG + 1
INF   == BIG + 2
NAN   == BIG + 3
OVF   == BIG + 4

Abs(a) == IF a < 0 THEN -a ELSE a
Sgn(a) == IF a < 0 THEN -1 ELSE IF a > 0 THEN 1 ELSE 0

IsNum(a)    == -BIG <= a /\ a <= BIG
IsFinite(a) == -FMAX <= a /\ a <= FMAX
Range(a)    == IF Abs(a) > BIG THEN OVF ELSE a

\* NAN or OVF operand of a binary operation, if any
Bad(a, b) == IF a = OVF \/ b = OVF THEN OVF
             ELSE IF a = NAN \/ b = NAN THEN NAN ELSE 0

\* a * b / SCALE for a, b in 0..BIG, rounded to nearest, without leaving 32 bits
MulNat(a, b) ==
    LET ai == a \div SCALE   af == a % SCALE
        bi == b \div SCALE   bf == b % SCALE
        afh == af \div K3    afl == af % K3
        bfh == bf \div K3    bfl == bf % K3
        lo == afh * bfh + ((afh * bfl + afl * bfh) * K3 + afl * bfl + SCALE \div 2) \div SCALE
        t1 == ai * bi * SCALE + ai * bf
        t2 == t1 + af * bi
    IN  IF ai * bi > K3 THEN OVF
        ELSE IF t1 > BIG THEN OVF
        ELSE IF t2 > BIG THEN OVF
        ELSE Range(t2 + lo)

\* a * SCALE / b for a in 0..BIG, b in 1..BIG, rounded to nearest
RECURSIVE DivDigits(_, _, _, _)
DivDigits(r, b, k, acc) ==
    IF k = 0 THEN IF 2 * r >= b THEN acc + 1 ELSE acc
    ELSE DivDigits((r * 10) % b, b, k - 1, acc * 10 + (r * 10) \div b)

DivNat(a, b) ==
    LET q == a \div b
        c == IF b > BIG \div 10 THEN 10 ELSE 1      \* keep r * 10 inside 32 bits
        bb == b \div c
        r == (a % b) \div c
    IN  IF q > K3 THEN OVF
        ELSE Range(q * SCALE + DivDigits(r, bb, 6, 0))

FNeg(a) == IF a = NAN \/ a = OVF THEN a ELSE -a

FAdd(a, b) ==
    IF Bad(a, b) # 0 THEN Bad(a, b)
    ELSE IF Abs(a) = INF /\ Abs(b) = INF THEN (IF a = b THEN a ELSE NAN)
    ELSE IF Abs(a) = INF THEN a
    ELSE IF Abs(b) = INF THEN b
    ELSE IF Abs(a) = FMAX /\ Abs(b) = FMAX THEN (IF a = b THEN Sgn(a) * INF ELSE 0)
    ELSE IF Abs(a) = FMAX THEN a      \* the other operand is below half an ulp
    ELSE IF Abs(b) = FMAX THEN b
    ELSE Range(a + b)

FSub(a, b) == FAdd(a, FNeg(b))

FMul(a, b) ==
    LET s == Sgn(a) * Sgn(b)
        MaxTimes(m) == IF m = 0 THEN 0
                       ELSE IF Abs(m) = FMAX \/ Abs(m) > SCALE THEN s * INF
                       ELSE IF Abs(m) = SCALE THEN s * FMAX
                       ELSE OVF
    IN  IF Bad(a, b) # 0 THEN Bad(a, b)
        ELSE IF Abs(a) = INF \/ Abs(b) = INF THEN (IF s = 0 THEN NAN ELSE s * INF)
        ELSE IF Abs(a) = FMAX THEN MaxTimes(b)
        ELSE IF Abs(b) = FMAX THEN MaxTimes(a)
        ELSE LET m == MulNat(Abs(a), Abs(b)) IN IF m = OVF THEN OVF ELSE s * m

FDiv(a, b) ==
    LET s == Sgn(a) * (IF b < 0 THEN -1 ELSE 1)
    IN  IF Bad(a, b) # 0 THEN Bad(a, b)
        ELSE IF Abs(a) = INF THEN (IF Abs(b) = INF THEN NAN ELSE s * INF)
        ELSE IF Abs(b) = INF THEN 0
        ELSE IF b = 0 THEN (IF a = 0 THEN NAN ELSE s * INF)
        ELSE IF Abs(a) = FMAX THEN
                 (IF Abs(b) = FMAX THEN s * SCALE
                  ELSE IF Abs(b) < SCALE THEN s * INF
                  ELSE IF Abs(b) = SCALE THEN s * FMAX ELSE OVF)
        ELSE IF Abs(b) = FMAX THEN 0
        ELSE LET m == DivNat(Abs(a), Abs(b)) IN IF m = OVF THEN OVF ELSE s * m

\* comparisons: false when either side is NaN
FGt(a, b) == a # NAN /\ b # NAN /\ a # OVF /\ b # OVF /\ a > b
FLe(a, b) == a # NAN /\ b # NAN /\ a # OVF /\ b # OVF /\ a <= b

\* torch.maximum / torch.max: NaN propagates
FMaximum(a, b) == IF Bad(a, b) # 0 THEN Bad(a, b) ELSE IF a >= b THEN a ELSE b

\* torch.exp.  e^k for k in -16..6, in units
ExpInt(k) == <<0, 0, 1, 2, 6, 17, 45, 123, 335, 912, 2479, 6738, 18316, 49787,
               135335, 367879, 1000000, 2718282, 7389056, 20085537, 54598150,
               148413159, 403428793>>[k + 17]

RECURSIVE ExpSeries(_, _, _, _)
ExpSeries(xf, k, term, acc) ==
    IF term = 0 \/ k > 12 THEN acc
    ELSE LET t == (MulNat(term, xf) + k \div 2) \div k
         IN  ExpSeries(xf, k + 1, t, acc + t)

ExpNum(x) ==
    LET xi == x \div SCALE
        xf == x % SCALE
    IN  IF xi < -16 THEN 0
        ELSE IF xi > 6 THEN OVF
        ELSE IF x < 0 /\ xi >= -6
             THEN DivNat(SCALE, MulNat(ExpInt(-xi - 1), ExpSeries(SCALE - xf, 1, SCALE, SCALE)))
        ELSE MulNat(ExpInt(xi), ExpSeries(xf, 1, SCALE, SCALE))

FExp(a) ==
    IF a = NAN \/ a = OVF THEN a
    ELSE IF a = -INF \/ a = -FMAX THEN 0
    ELSE IF a = INF \/ a = FMAX THEN INF
    ELSE ExpNum(a)

\* torch.log.  ln(a / b) for naturals a, b >= 1
LN2    == 693147
LNFMAX == 88722839

RECURSIVE LnSeries(_, _, _, _)
LnSeries(z2, k, pow, acc) ==
    IF pow = 0 \/ k > 15 THEN acc
    ELSE LnSeries(z2, k + 2, MulNat(pow, z2), acc + (pow + k \div 2) \div k)

RECURSIVE LnRatio(_, _, _)
LnRatio(a, b, e) ==
    IF a < b THEN LnRatio(2 * a, b, e - 1)
    ELSE IF a >= 2 * b THEN LnRatio(a, 2 * b, e + 1)
    ELSE LET m == DivNat(a, b)
             z == DivNat(m - SCALE, m + SCALE)
         IN  e * LN2 + 2 * LnSeries(MulNat(z, z), 1, z, 0)

FLog(a) ==
    IF a = NAN \/ a = OVF THEN a
    ELSE IF a < 0 THEN NAN
    ELSE IF a = 0 THEN -INF
    ELSE IF a = INF THEN INF
    ELSE IF a = FMAX THEN LNFMAX
    ELSE LnRatio(a, SCALE, 0)

\* x ** 0.5.  r * r = SqHi(r) * SCALE + SqLo(r)
SqMid(r) == 2 * (r \div K3) * (r % K3)
SqLow(r) == (SqMid(r) % K3) * K3 + (r % K3) * (r % K3)
SqHi(r)  == (r \div K3) * (r \div K3) + SqMid(r) \div K3 + SqLow(r) \div SCALE
SqLo(r)  == SqLow(r) % SCALE

RECURSIVE SqrtSearch(_, _, _)
SqrtSearch(v, lo, hi) ==      \* largest r in lo..hi with r * r <= v * SCALE
    IF lo = hi THEN lo
    ELSE LET mid == (lo + hi + 1) \div 2
         IN  IF SqHi(mid) < v \/ (SqHi(mid) = v /\ SqLo(mid) = 0)
             THEN SqrtSearch(v, mid, hi) ELSE SqrtSearch(v, lo, mid - 1)

SqrtNum(v) ==
    LET r == SqrtSearch(v, 0, 32 * SCALE)
    IN  IF SqHi(r) + (SqLo(r) + r) \div SCALE < v THEN r + 1 ELSE r

FSqrt(a) ==
    IF a = NAN \/ a = OVF THEN a
    ELSE IF a < 0 THEN NAN
    ELSE IF a = INF THEN INF
    ELSE IF a = FMAX THEN OVF
    ELSE SqrtNum(a)

\* ---------------------------------------------------------------------
\* tensors
\* ---------------------------------------------------------------------
None == <<>>

\* a function constructor evaluated once, as the tensor it denotes
Tensor(f) == f @@ <<>>

\* an assignment v = ...; followed by the code F that uses v
Let(v, F(_)) == F(v)

ONE == SCALE

\* sum of f[0..k], left to right
RECURSIVE SumTo(_, _)
SumTo(f, k) == IF k < 0 THEN 0 ELSE FAdd(SumTo(f, k - 1), f[k])

Sum(f) == SumTo(f, Cardinality(DOMAIN f) - 1)

RECURSIVE MaxTo(_, _)
MaxTo(f, k) == IF k = 0 THEN f[0] ELSE FMaximum(MaxTo(f, k - 1), f[k])

RowMax(f) == MaxTo(f, Cardinality(DOMAIN f) - 1)

Len0(t) == Cardinality(DOMAIN t)

\* torch.nn.functional.softmax(row, dim=-1)
Softmax(row) ==
    LET m == RowMax(row)
        e == Tensor([j \in DOMAIN row |-> FExp(FSub(row[j], m))])
        s == Sum(e)
    IN  Tensor([j \in DOMAIN row |-> FDiv(e[j], s)])

\* ---------------------------------------------------------------------
\* module-level functions
\* ---------------------------------------------------------------------
\* base is a Python int; torch.tensor(base) is its float
log_base(x, base) == FDiv(FLog(x), LnRatio(base, 1, 0))

poly_fit == <<-37000, 481000, -2300000, 4917000, -1791000>>
HALF     == 500000
LN_EPS   == -20723266

\* torch.log(p + 1e-9): 1e-9 is below one unit, so it only shows at p = 0
LogEps(p) == IF p = 0 THEN LN_EPS ELSE FLog(p)

Entropy(probs) == Sum(Tensor([j \in DOMAIN probs |-> FMul(FNeg(probs[j]), LogEps(probs[j]))]))

PolyResult(H) ==
    LET H2 == FMul(H, H)
        H3 == FMul(H2, H)
        H4 == FMul(H3, H)
    IN  FAdd(FAdd(FAdd(FAdd(FMul(poly_fit[1], H4), FMul(poly_fit[2], H3)),
                       FMul(poly_fit[3], H2)), FMul(poly_fit[4], H)), poly_fit[5])

\* beta without the floor at 1
BetaUnclamped(H) == IF FGt(H, HALF) THEN PolyResult(H) ELSE ONE

\* torch.where(entropy > 0.5, torch.maximum(poly_result, 1.0), 1.0)
Beta(H) == IF FGt(H, HALF) THEN FMaximum(PolyResult(H), ONE) ELSE ONE

\* the temperature applied to the probabilities instead of the logits
ScaledProbabilities(logits) ==
    Let(Softmax(logits), LAMBDA original_probs :
    Let(Entropy(original_probs), LAMBDA H :
    Let(Beta(H), LAMBDA b :
        [entropy |-> H, beta |-> b,
         scaled |-> Tensor([j \in DOMAIN logits |-> FMul(logits[j], b)]),
         out |-> Tensor([j \in DOMAIN logits |-> FMul(original_probs[j], b)])])))

\* adaptive_temperature_softmax on one row: the row's entropy, beta,
\* logits * beta and the returned probabilities
adaptive_temperature_softmax(logits) ==
    Let(Softmax(logits), LAMBDA original_probs :
    Let(Entropy(original_probs), LAMBDA H :
    Let(Beta(H), LAMBDA b :
    Let(Tensor([j \in DOMAIN logits |-> FMul(logits[j], b)]), LAMBDA scaled :
        [entropy |-> H, beta |-> b, scaled |-> scaled, out |-> Softmax(scaled)]))))

yarn_scaling(seq_len, head_dim) ==
    Tensor([i \in DOMAIN seq_len |->
        LET t == FAdd(FMul(ONE \div 10, FLog(seq_len[i])), ONE)
        IN  FDiv(FMul(t, t), FSqrt(head_dim))])

relative_scaling(seq_len, head_dim, base_seq_len) ==
    Tensor([i \in DOMAIN seq_len |-> FSqrt(FDiv(log_base(seq_len[i], base_seq_len), head_dim))])

relative_scaling_2(seq_len, head_dim, attn_bias, base_seq_len) ==
    Tensor([h \in DOMAIN attn_bias |-> Tensor([i \in DOMAIN seq_len |->
        FSqrt(FDiv(FMul(log_base(seq_len[i], base_seq_len), attn_bias[h]), head_dim))])])

\* ---------------------------------------------------------------------
\* module state
\* ---------------------------------------------------------------------
Heads   == 2
HeadDim == 2
Dim     == Heads * HeadDim
MaxN    == 4

HeadIx == 0 .. Heads - 1

\* a tuple as a 0-based tensor
T0(a) == Tensor([j \in 0 .. Len(a) - 1 |-> a[j + 1]])

\* nn.Linear weights, W[out][in], fixed for the module's lifetime
to_q_weight == T0(<<T0(<<1000000, 0, 500000, 0>>), T0(<<0, 1000000, 0, -500000>>),
                    T0(<<500000, 0, 1000000, 0>>), T0(<<0, 500000, 0, 1000000>>)>>)
to_k_weight == T0(<<T0(<<1000000, 500000, 0, 0>>), T0(<<-500000, 1000000, 0, 0>>),
                    T0(<<0, 0, 1000000, 500000>>), T0(<<0, 0, 500000, 1000000>>)>>)
to_v_weight == T0(<<T0(<<1000000, 0, 0, 500000>>), T0(<<0, 1000000, 500000, 0>>),
                    T0(<<0, -500000, 1000000, 0>>), T0(<<500000, 0, 0, 1000000>>)>>)
to_out_weight == T0(<<T0(<<1000000, 500000, 0, 0>>), T0(<<0, 1000000, 500000, 0>>),
                      T0(<<0, 0, 1000000, 500000>>), T0(<<-500000, 0, 0, 1000000>>)>>)
to_out_bias == T0(<<100000, -200000, 0, 300000>>)

\* input activations: one embedding per position
Tokens == {T0(<<1000000, 0, 1000000, 0>>), T0(<<0, 2000000, -1000000, 1000000>>)}

Classes == {"AttentionBase", "AttentionRelativeScaling1", "AttentionRelativeScaling2",
            "AttentionYarnScaling", "AttentionPolyFitScaling", "AttentionLearnedScaling",
            "AttentionSoftmaxPlusOne", "AttentionSoftmaxPlusFN"}

PerHead(a, b) == Tensor([h \in HeadIx |-> IF h = 0 THEN a ELSE b])

DEFAULT_BASE_SEQ_LEN == 2048
DEFAULT_ATTN_BIAS    == 1500000

\* the fields a constructor sets; a class that has no such field keeps the default
Default(c) == [cls |-> c, base_seq_len |-> DEFAULT_BASE_SEQ_LEN,
               attn_bias |-> PerHead(DEFAULT_ATTN_BIAS, DEFAULT_ATTN_BIAS),
               alphas |-> PerHead(0, 0), betas |-> PerHead(0, 0),
               denom_bias |-> PerHead(0, 0)]

IsDefault(m) == m = Default(m.cls)

\* trained values of the learned parameters
Trained == {PerHead(-100000, 200000), PerHead(300000, -20 * ONE)}

Modules ==
    {Default(c) : c \in Classes}
    \cup {[Default("AttentionRelativeScaling1") EXCEPT !.base_seq_len = b] : b \in 2 .. MaxN}
    \cup {[Default("AttentionLearnedScaling") EXCEPT !.alphas = PerHead(-100000, 200000),
                                                      !.betas = PerHead(200000, -100000)]}
    \cup {[Default("AttentionSoftmaxPlusOne") EXCEPT !.denom_bias = d] : d \in Trained}
    \cup {[Default("AttentionSoftmaxPlusFN") EXCEPT !.alphas = PerHead(-100000, 200000),
                                                     !.betas = PerHead(200000, -100000)]}

VARIABLES
    module,          \* the attention module: its class and parameters
    x,               \* the input of the current call, x[i][c]
    pc,              \* "input": forward not yet run on x; "done": it has returned
    seq_lens,        \* the tensors of the last forward, None where it computes none
    scales,
    mask,
    sim,
    exp_in,          \* the tensor handed to the exponential of the manual softmax
    denom,
    modified_denom,
    attn,
    entropy,
    beta,
    out,
    logits,          \* argument of a direct call of adaptive_temperature_softmax
    hx,              \* the previous call's input and output
    hout

tensors == <<seq_lens, scales, mask, sim, exp_in, denom, modified_denom, attn, entropy, beta, out>>
vars == <<module, x, pc, seq_lens, scales, mask, sim, exp_in, denom, modified_denom,
          attn, entropy, beta, out, logits, hx, hout>>

Blank == [seq_lens |-> None, scales |-> None, mask |-> None, sim |-> None,
          exp_in |-> None, denom |-> None, modified_denom |-> None, attn |-> None,
          entropy |-> None, beta |-> None, out |-> None]

Emit(r) ==
    /\ seq_lens' = r.seq_lens
    /\ scales' = r.scales
    /\ mask' = r.mask
    /\ sim' = r.sim
    /\ exp_in' = r.exp_in
    /\ denom' = r.denom
    /\ modified_denom' = r.modified_denom
    /\ attn' = r.attn
    /\ entropy' = r.entropy
    /\ beta' = r.beta
    /\ out' = r.out

\* ---------------------------------------------------------------------
\* pieces of forward
\* ---------------------------------------------------------------------
Pos(xs) == 0 .. Len0(xs) - 1
DIx == 0 .. HeadDim - 1

Dot(a, b) == Sum(Tensor([d \in DOMAIN a |-> FMul(a[d], b[d])]))

\* nn.Linear(dim, dim, bias=False) and nn.Linear(dim, dim, bias=True)
Linear(xs, W) == Tensor([i \in DOMAIN xs |-> Tensor([o \in DOMAIN W |-> Dot(xs[i], W[o])])])
LinearBias(xs, W, b) == Tensor([i \in DOMAIN xs |-> Tensor([o \in DOMAIN W |-> FAdd(Dot(xs[i], W[o]), b[o])])])

\* rearrange 'b n (h d) -> b h n d' and back
SplitHeads(t) == Tensor([h \in HeadIx |-> Tensor([i \in DOMAIN t |-> Tensor([d \in DIx |-> t[i][h * HeadDim + d]])])])
MergeHeads(o) == Tensor([i \in DOMAIN o[0] |-> Tensor([c \in 0 .. Dim - 1 |-> o[c \div HeadDim][i][c % HeadDim]])])

Q(xs) == SplitHeads(Linear(xs, to_q_weight))
K(xs) == SplitHeads(Linear(xs, to_k_weight))
V(xs) == SplitHeads(Linear(xs, to_v_weight))

to_out(o) == LinearBias(MergeHeads(o), to_out_weight, to_out_bias)

\* torch.arange(n, dtype=x.dtype)
Arange(n) == Tensor([i \in 0 .. n - 1 |-> i * ONE])

\* d / self.heads and math.sqrt(q.shape[-1])
HeadDimF == FDiv(Dim * ONE, Heads * ONE)
SqrtHeadDim == FSqrt(HeadDim * ONE)

\* q * scales, scales[h][i] broadcast over the last axis
ScaleQ(q, sc) == Tensor([h \in HeadIx |-> Tensor([i \in DOMAIN q[h] |-> Tensor([d \in DIx |-> FMul(q[h][i][d], sc[h][i])])])])

\* einsum 'b h i j, b h j d -> b h i d'
Attend(w, v) ==
    Tensor([h \in HeadIx |-> Tensor([i \in DOMAIN w[h] |-> Tensor([d \in DIx |->
        Sum(Tensor([j \in DOMAIN v[h] |-> FMul(w[h][i][j], v[h][j][d])]))])])])

\* torch's scaled_dot_product_attention(q, k, v, is_causal=True, scale=scale):
\* softmax(q @ k^T * scale + bias) @ v with bias -inf above the diagonal
SdpaWeights(q, k, scale) ==
    Tensor([h \in HeadIx |-> Tensor([i \in DOMAIN q[h] |->
        Softmax(Tensor([j \in DOMAIN k[h] |->
            FAdd(FMul(Dot(q[h][i], k[h][j]), scale), IF j > i THEN -INF ELSE 0)]))])])

sdpa(q, k, v, scale) == Attend(SdpaWeights(q, k, scale), v)

\* torch.ones((n, n), dtype=torch.bool).triu(diagonal)
Triu(n, diagonal) == Tensor([i \in 0 .. n - 1 |-> Tensor([j \in 0 .. n - 1 |-> j - i >= diagonal])])

\* einsum 'b h i d, b h j d -> b h i j', / sqrt(head_dim), masked_fill(mask, -finfo.max)
MaskedSim(q, k, m) ==
    Tensor([h \in HeadIx |-> Tensor([i \in DOMAIN q[h] |-> Tensor([j \in DOMAIN k[h] |->
        IF m[i][j] THEN -FMAX ELSE FDiv(Dot(q[h][i], k[h][j]), SqrtHeadDim)])])])

\* ---------------------------------------------------------------------
\* forward of each class: the tensors it computes
\* ---------------------------------------------------------------------
AllHeads(sc) == Tensor([h \in HeadIx |-> sc])

BaseForward(m, xs) ==
    [Blank EXCEPT !.out = to_out(sdpa(Q(xs), K(xs), V(xs), FDiv(ONE, SqrtHeadDim)))]

\* the scales multiplied into the keys instead of the queries
PrescaledKeys(xs, sl, sc) ==
    [Blank EXCEPT !.seq_lens = sl, !.scales = sc,
                  !.out = to_out(sdpa(Q(xs), ScaleQ(K(xs), sc), V(xs), ONE))]

\* the pre-scaling variants: q * scales, then sdpa with scale=1.0
Prescaled(xs, sl, sc) ==
    [Blank EXCEPT !.seq_lens = sl, !.scales = sc,
                  !.out = to_out(sdpa(ScaleQ(Q(xs), sc), K(xs), V(xs), ONE))]

RelativeScaling1Forward(m, xs) ==
    LET sl == Arange(Len0(xs))
    IN  Prescaled(xs, sl, AllHeads(relative_scaling(sl, HeadDimF, m.base_seq_len)))

RelativeScaling2Forward(m, xs) ==
    LET sl == Arange(Len0(xs))
    IN  Prescaled(xs, sl, relative_scaling_2(sl, HeadDimF, m.attn_bias, m.base_seq_len))

YarnScalingForward(m, xs) ==
    LET sl == Arange(Len0(xs))
    IN  Prescaled(xs, sl, AllHeads(yarn_scaling(sl, HeadDimF)))

\* AttentionLearnedScaling.create_scaling; base_scale = head_dim ** 0.5
create_scaling(m, sl) ==
    Tensor([h \in HeadIx |-> Tensor([i \in DOMAIN sl |->
        LET multiplier == FAdd(FAdd(ONE, FMul(m.alphas[h], FLog(sl[i]))), m.betas[h])
        IN  FDiv(ONE, FMul(multiplier, FSqrt(HeadDimF)))])])

LearnedScalingForward(m, xs) ==
    LET sl == Arange(Len0(xs))
    IN  Prescaled(xs, sl, create_scaling(m, sl))

\* the mask one diagonal too high, and one too low
CausalMaskAboveNext(n) == Triu(n, 2)
CausalMaskWithDiagonal(n) == Triu(n, 0)

CausalMask(n) == Triu(n, 1)

PolyFitScalingForward(m, xs) ==
    Let(CausalMask(Len0(xs)), LAMBDA mk :
    Let(MaskedSim(Q(xs), K(xs), mk), LAMBDA s :
    Let(Tensor([h \in HeadIx |-> Tensor([i \in Pos(xs) |-> adaptive_temperature_softmax(s[h][i])])]), LAMBDA a :
    Let(Tensor([h \in HeadIx |-> Tensor([i \in Pos(xs) |-> a[h][i].out])]), LAMBDA w :
        [Blank EXCEPT !.mask = mk, !.sim = s,
                      !.entropy = Tensor([h \in HeadIx |-> Tensor([i \in Pos(xs) |-> a[h][i].entropy])]),
                      !.beta = Tensor([h \in HeadIx |-> Tensor([i \in Pos(xs) |-> a[h][i].beta])]),
                      !.exp_in = Tensor([h \in HeadIx |-> Tensor([i \in Pos(xs) |-> a[h][i].scaled])]),
                      !.attn = w,
                      !.out = to_out(Attend(w, V(xs)))]))))

\* the manual softmax of the two softmax-plus variants; extra[h][i] is what is
\* added to the denominator
PlusDenominator(xs, sl, extra) ==
    Let(CausalMask(Len0(xs)), LAMBDA mk :
    Let(MaskedSim(Q(xs), K(xs), mk), LAMBDA s :
    Let(Tensor([h \in HeadIx |-> Tensor([i \in Pos(xs) |-> RowMax(s[h][i])])]), LAMBDA sim_max :
    Let(Tensor([h \in HeadIx |-> Tensor([i \in Pos(xs) |-> Tensor([j \in Pos(xs) |->
            FSub(s[h][i][j], sim_max[h][i])])])]), LAMBDA e_in :
    Let(Tensor([h \in HeadIx |-> Tensor([i \in Pos(xs) |-> Tensor([j \in Pos(xs) |->
            FExp(e_in[h][i][j])])])]), LAMBDA exp_sim :
    Let(Tensor([h \in HeadIx |-> Tensor([i \in Pos(xs) |-> Sum(exp_sim[h][i])])]), LAMBDA dn :
    Let(Tensor([h \in HeadIx |-> Tensor([i \in Pos(xs) |-> FAdd(dn[h][i], extra[h][i])])]), LAMBDA md :
    Let(Tensor([h \in HeadIx |-> Tensor([i \in Pos(xs) |-> Tensor([j \in Pos(xs) |->
            FDiv(exp_sim[h][i][j], md[h][i])])])]), LAMBDA w :
        [Blank EXCEPT !.seq_lens = sl, !.mask = mk, !.sim = s, !.exp_in = e_in, !.denom = dn,
                      !.modified_denom = md, !.attn = w, !.out = to_out(Attend(w, V(xs)))]))))))))

\* denom_bias added without the exponential
DenomBiasRaw(m, xs) == Tensor([h \in HeadIx |-> Tensor([i \in Pos(xs) |-> m.denom_bias[h]])])

\* torch.exp(self.denom_bias)
DenomBiasTerm(m, xs) == Tensor([h \in HeadIx |-> Tensor([i \in Pos(xs) |-> FExp(m.denom_bias[h])])])

\* the denominator left as the plain sum
SoftmaxPlusOneNoBias(m, xs) ==
    PlusDenominator(xs, None, Tensor([h \in HeadIx |-> Tensor([i \in Pos(xs) |-> 0])]))

SoftmaxPlusOneForward(m, xs) == PlusDenominator(xs, None, DenomBiasTerm(m, xs))

\* torch.exp(self.alphas * torch.log(seq_lens) + self.betas)
LearnedDenomTerm(m, sl) ==
    Tensor([h \in HeadIx |-> Tensor([i \in DOMAIN sl |->
        FExp(FAdd(FMul(m.alphas[h], FLog(sl[i])), m.betas[h]))])])

SoftmaxPlusFNForward(m, xs) ==
    LET sl == Arange(Len0(xs))
    IN  PlusDenominator(xs, sl, LearnedDenomTerm(m, sl))

\* ---------------------------------------------------------------------
\* the state machine: a caller feeds inputs to one module
\* ---------------------------------------------------------------------
Inputs == UNION {[0 .. n - 1 -> Tokens] : n \in 1 .. MaxN}

Init ==
    /\ module \in Modules
    /\ x \in Inputs
    /\ pc = "input"
    /\ seq_lens = None /\ scales = None /\ mask = None /\ sim = None /\ exp_in = None
    /\ denom = None /\ modified_denom = None /\ attn = None /\ entropy = None
    /\ beta = None /\ out = None
    /\ logits = None /\ hx = None /\ hout = None

\* a forward call is due on a module of class cls
Ready(cls) == pc = "input" /\ module # None /\ module.cls = cls

\* forward returns: its tensors are the state's, the input and module stay
Return(r) ==
    /\ \E t \in {r} : Emit(t)
    /\ pc' = "done"
    /\ UNCHANGED <<module, x, logits, hx, hout>>

Base ==
    /\ Ready("AttentionBase")
    /\ Return(BaseForward(module, x))

RelativeScaling1 ==
    /\ Ready("AttentionRelativeScaling1")
    /\ Return(RelativeScaling1Forward(module, x))

RelativeScaling2 ==
    /\ Ready("AttentionRelativeScaling2")
    /\ Return(RelativeScaling2Forward(module, x))

YarnScaling ==
    /\ Ready("AttentionYarnScaling")
    /\ Return(YarnScalingForward(module, x))

PolyFitScaling ==
    /\ Ready("AttentionPolyFitScaling")
    /\ Return(PolyFitScalingForward(module, x))

LearnedScaling ==
    /\ Ready("AttentionLearnedScaling")
    /\ Return(LearnedScalingForward(module, x))

SoftmaxPlusOne ==
    /\ Ready("AttentionSoftmaxPlusOne")
    /\ Return(SoftmaxPlusOneForward(module, x))

SoftmaxPlusFN ==
    /\ Ready("AttentionSoftmaxPlusFN")
    /\ Return(SoftmaxPlusFNForward(module, x))

\* the caller calls again with the token at one position replaced
NextInput ==
    /\ pc = "done"
    /\ module # None
    /\ \E j \in Pos(x), tok \in Tokens :
          /\ tok # x[j]
          /\ x' = [x EXCEPT ![j] = tok]
    /\ hx' = x
    /\ hout' = out
    /\ pc' = "input"
    /\ Emit(Blank)
    /\ UNCHANGED <<module, logits>>

Next ==
    \/ Base
    \/ RelativeScaling1
    \/ RelativeScaling2
    \/ YarnScaling
    \/ PolyFitScaling
    \/ LearnedScaling
    \/ SoftmaxPlusOne
    \/ SoftmaxPlusFN
    \/ NextInput

Spec == Init /\ [][Next]_vars

\* the floats of a tensor of one, two or three axes
Leaves1(t) == {t[i] : i \in DOMAIN t}
Leaves2(t) == UNION {Leaves1(t[i]) : i \in DOMAIN t}
Leaves3(t) == UNION {Leaves2(t[i]) : i \in DOMAIN t}

\* no reachable tensor holds a float outside the model's range
NoOVF == OVF \notin Leaves1(seq_lens) \cup Leaves2(scales) \cup Leaves3(sim) \cup Leaves3(exp_in)
                    \cup Leaves2(denom) \cup Leaves2(modified_denom) \cup Leaves3(attn)
                    \cup Leaves2(entropy) \cup Leaves2(beta) \cup Leaves2(out)

\* ---------------------------------------------------------------------
\* direct calls of adaptive_temperature_softmax on a logits tensor
\* ---------------------------------------------------------------------
MaxCols == 4

LogitVals == {0, ONE, 3 * ONE}

\* a row whose baseline softmax has entropy exactly 0.5
HalfGap == ONE + 388110

\* rows of c logits; masked entries, if any, follow the unmasked ones
Rows(c) == {r \in [0 .. c - 1 -> LogitVals \cup {-FMAX}] :
               /\ r[0] # -FMAX
               /\ \A j \in 1 .. c - 1 : r[j - 1] = -FMAX => r[j] = -FMAX}

Probes(c) == {Tensor([j \in 0 .. c - 1 |-> 0]),
              Tensor([j \in 0 .. c - 1 |-> IF j = 0 THEN 3 * ONE ELSE 0]),
              Tensor([j \in 0 .. c - 1 |-> IF j = 0 THEN 0 ELSE IF j = 1 THEN HalfGap ELSE -FMAX])}

\* logits of shape (1, 2, c)
LogitTensors == UNION {{Tensor([h \in {0} |-> Tensor([i \in 0 .. 1 |-> IF i = 0 THEN a ELSE b])]) :
                            a \in Rows(c), b \in Probes(c)} : c \in 1 .. MaxCols}

InitATS ==
    /\ logits \in LogitTensors
    /\ pc = "input"
    /\ module = None /\ x = None
    /\ seq_lens = None /\ scales = None /\ mask = None /\ sim = None /\ exp_in = None
    /\ denom = None /\ modified_denom = None /\ attn = None /\ entropy = None
    /\ beta = None /\ out = None
    /\ hx = None /\ hout = None

AdaptiveTemperatureSoftmax ==
    /\ pc = "input"
    /\ logits # None
    /\ \E a \in {Tensor([h \in DOMAIN logits |-> Tensor([i \in DOMAIN logits[h] |->
                       adaptive_temperature_softmax(logits[h][i])])])} :
           /\ entropy' = Tensor([h \in DOMAIN a |-> Tensor([i \in DOMAIN a[h] |-> a[h][i].entropy])])
           /\ beta' = Tensor([h \in DOMAIN a |-> Tensor([i \in DOMAIN a[h] |-> a[h][i].beta])])
           /\ exp_in' = Tensor([h \in DOMAIN a |-> Tensor([i \in DOMAIN a[h] |-> a[h][i].scaled])])
           /\ attn' = Tensor([h \in DOMAIN a |-> Tensor([i \in DOMAIN a[h] |-> a[h][i].out])])
    /\ pc' = "done"
    /\ UNCHANGED <<module, x, seq_lens, scales, mask, sim, denom, modified_denom, out,
                   logits, hx, hout>>

NextATS == AdaptiveTemperatureSoftmax

SpecATS == InitATS /\ [][NextATS]_vars

\* ---------------------------------------------------------------------
\* properties
\* ---------------------------------------------------------------------
TOL == ONE \div 100000          \* 1e-5

Close(a, b) == IsNum(a) /\ IsNum(b) /\ Abs(a - b) <= TOL

Done(c) == pc = "done" /\ module # None /\ module.cls = c

ManualSoftmax == {"AttentionPolyFitScaling", "AttentionSoftmaxPlusOne", "AttentionSoftmaxPlusFN"}

DoneManual == pc = "done" /\ module # None /\ module.cls \in ManualSoftmax

\* C1: when two successive inputs agree on positions 0..i, the outputs of
\* forward agree at position i, for every class.
Causality ==
    (pc = "done" /\ hx # None) =>
        \A i \in Pos(x) : (\A k \in 0 .. i : x[k] = hx[k]) => out[i] = hout[i]

\* a later token was replaced, the output there changed, the one before it did not
CausalityWitness ==
    /\ pc = "done" /\ hx # None
    /\ \E j \in Pos(x) : /\ j >= 2
                         /\ x[j] # hx[j]
                         /\ out[j] # hout[j]
                         /\ out[j - 1] = hout[j - 1]
                         /\ \A c \in DOMAIN out[j - 1] : IsNum(out[j - 1][c])

\* C9: in the three manual-softmax classes entry (i, j) is masked exactly
\* when j > i, so the unmasked entries of row i are those at 0..i and no row
\* is fully masked.
MaskShape ==
    DoneManual =>
        /\ mask # None
        /\ \A i \in Pos(x) :
              /\ {j \in Pos(x) : ~mask[i][j]} = 0 .. i
              /\ \A h \in HeadIx : {j \in Pos(x) : sim[h][i][j] # -FMAX} = 0 .. i

MaskShapeWitness ==
    /\ DoneManual
    /\ Len0(x) >= 3
    /\ mask[0][1] /\ mask[0][2] /\ mask[1][2] /\ ~mask[2][2] /\ ~mask[2][0]

\* C8: with default constructor options and at least two positions, every
\* output of the seven variants at a position i >= 1 is finite; a non-finite
\* value appears at position 0 only.
SingularityConfined ==
    (pc = "done" /\ module # None /\ module.cls # "AttentionBase"
        /\ IsDefault(module) /\ Len0(x) >= 2) =>
        \A i \in Pos(x) \ {0} : \A c \in DOMAIN out[i] : IsFinite(out[i][c])

SingularityWitness ==
    /\ pc = "done" /\ module # None /\ module.cls # "AttentionBase"
    /\ IsDefault(module) /\ Len0(x) >= 2
    /\ scales # None
    /\ ~IsFinite(scales[0][0])
    /\ ~IsFinite(out[0][0])
    /\ \A c \in DOMAIN out[1] : IsNum(out[1][c])

\* C6: AttentionLearnedScaling with alpha = beta = 0 scales the queries of
\* every position by 1/sqrt(head_dim) and its output equals AttentionBase's
\* at every position.
LearnedIdentityMatchesBase ==
    (Done("AttentionLearnedScaling") /\ IsDefault(module)) =>
        /\ \A h \in HeadIx : \A i \in Pos(x) : scales[h][i] = FDiv(ONE, SqrtHeadDim)
        /\ \E b \in {BaseForward(module, x).out} :
              \A i \in Pos(x) : \A c \in DOMAIN out[i] : Close(out[i][c], b[i][c])

\* the same statement from position 1 on
LearnedIdentityMatchesBaseAfterFirst ==
    (Done("AttentionLearnedScaling") /\ IsDefault(module)) =>
        /\ \A h \in HeadIx : \A i \in Pos(x) \ {0} : scales[h][i] = FDiv(ONE, SqrtHeadDim)
        /\ \E b \in {BaseForward(module, x).out} :
              \A i \in Pos(x) \ {0} : \A c \in DOMAIN out[i] : Close(out[i][c], b[i][c])

\* C7: in a forward of AttentionRelativeScaling1 on an input of length
\* base_seq_len, position base_seq_len is among the scaled positions, with
\* log_base = 1 and scale sqrt(1 / head_dim).
BoundaryPositionScaled ==
    (Done("AttentionRelativeScaling1") /\ Len0(x) = module.base_seq_len) =>
        \E i \in DOMAIN seq_lens :
            /\ seq_lens[i] = module.base_seq_len * ONE
            /\ log_base(seq_lens[i], module.base_seq_len) = ONE
            /\ scales[0][i] = FSqrt(FDiv(ONE, HeadDimF))

\* C10: in each manual-softmax class every masked entry still holds
\* -finfo.max, not -inf, in the tensor handed to the exponential (for
\* AttentionPolyFitScaling: logits * beta).
MaskedLogitsStayFinite ==
    DoneManual =>
        \A h \in HeadIx : \A i \in Pos(x) : \A j \in Pos(x) :
            mask[i][j] => exp_in[h][i][j] = -FMAX

\* C4 as stated: with denom_bias = 0 the weights of AttentionSoftmaxPlusOne
\* equal the plain causal softmax weights.
PlusOneIsSoftmax ==
    (Done("AttentionSoftmaxPlusOne") /\ IsDefault(module)) =>
        \A h \in HeadIx : \A i \in Pos(x) :
            \E sm \in {Softmax(sim[h][i])} :
                \A j \in Pos(x) : Close(attn[h][i][j], sm[j])

\* C4 amended: with denom_bias = 0 the weights are the plain causal softmax
\* weights times s / (s + 1), s the row's sum of exp(sim - max).
PlusOneIsDampedSoftmax ==
    (Done("AttentionSoftmaxPlusOne") /\ IsDefault(module)) =>
        \A h \in HeadIx : \A i \in Pos(x) :
            \E sm \in {Softmax(sim[h][i])} :
                \A j \in Pos(x) :
                    Close(FMul(attn[h][i][j], FAdd(denom[h][i], ONE)),
                          FMul(sm[j], denom[h][i]))

PlusOneDampedWitness ==
    /\ Done("AttentionSoftmaxPlusOne") /\ IsDefault(module)
    /\ Len0(x) >= 2
    /\ denom[0][1] > ONE
    /\ attn[0][1][1] > 0
    /\ attn[0][1][1] + TOL < Softmax(sim[0][1])[1]

\* C5 as stated: for every denom_bias every unmasked weight is strictly
\* smaller than the softmax weight and every row sums to strictly less than 1.
PlusOneStrictlyBelowSoftmax ==
    Done("AttentionSoftmaxPlusOne") =>
        \A h \in HeadIx : \A i \in Pos(x) :
            \E sm \in {Softmax(sim[h][i])} :
                /\ \A j \in 0 .. i : attn[h][i][j] < sm[j]
                /\ Sum(attn[h][i]) < ONE

\* C5 amended: the divisor is sum + exp(denom_bias) >= sum, so no weight
\* exceeds the softmax weight and no row sums to more than 1; the
\* inequalities are strict where exp(denom_bias) is at least 1% of the sum
\* (for weights of at least 1e-3).
PlusOneAtMostSoftmax ==
    Done("AttentionSoftmaxPlusOne") =>
        \A h \in HeadIx : \A i \in Pos(x) :
            \E sm \in {Softmax(sim[h][i])}, e \in {FExp(module.denom_bias[h])} :
                /\ IsNum(e) /\ e >= 0
                /\ modified_denom[h][i] = denom[h][i] + e
                /\ \A j \in 0 .. i : attn[h][i][j] <= sm[j]
                /\ Sum(attn[h][i]) <= ONE + TOL
                /\ 100 * e >= denom[h][i] =>
                      /\ Sum(attn[h][i]) < ONE
                      /\ \A j \in 0 .. i : sm[j] >= K3 => attn[h][i][j] < sm[j]

\* one head whose exp(denom_bias) vanishes in the sum, one where it does not
PlusOneAtMostWitness ==
    /\ Done("AttentionSoftmaxPlusOne")
    /\ Len0(x) >= 2
    /\ module.denom_bias[1] < -10 * ONE
    /\ modified_denom[1][1] = denom[1][1]
    /\ attn[1][1] = Softmax(sim[1][1])
    /\ 100 * FExp(module.denom_bias[0]) >= denom[0][1]
    /\ attn[0][1][1] < Softmax(sim[0][1])[1]

\* C2: beta = 1 for a row of entropy H <= 0.5, beta = max(poly(H), 1) for
\* H > 0.5, poly the quartic -0.037 H^4 + 0.481 H^3 - 2.3 H^2 + 4.917 H - 1.791;
\* so beta >= 1, and a row with H <= 0.5 is returned as its plain softmax.
Quartic(H) ==
    FAdd(FMul(FAdd(FMul(FAdd(FMul(FAdd(FMul(-37000, H), 481000), H), -2300000), H),
              4917000), H), -1791000)

BetaSelection ==
    (pc = "done" /\ logits # None) =>
        \A h \in DOMAIN logits : \A i \in DOMAIN logits[h] :
            \E H \in {entropy[h][i]} :
                /\ IsNum(H)
                /\ beta[h][i] >= ONE
                /\ H <= HALF => /\ beta[h][i] = ONE
                                /\ attn[h][i] = Softmax(logits[h][i])
                /\ H > HALF => Close(beta[h][i], IF Quartic(H) > ONE THEN Quartic(H) ELSE ONE)

\* one row at entropy exactly 0.5, one sharpened row, one row in between
BetaSelectionWitness ==
    /\ pc = "done" /\ logits # None
    /\ entropy[0][1] = HALF /\ beta[0][1] = ONE
    /\ beta[0][0] > ONE

BetaFloorWitness ==
    /\ pc = "done" /\ logits # None
    /\ entropy[0][0] > HALF /\ PolyResult(entropy[0][0]) < ONE /\ beta[0][0] = ONE

\* C3: every row returned by adaptive_temperature_softmax, called directly or
\* by AttentionPolyFitScaling on causally masked rows, is non-negative and
\* sums to 1 within 1e-5.
RowsAreDistributions ==
    (pc = "done" /\ (logits # None \/ Done("AttentionPolyFitScaling"))) =>
        \A h \in DOMAIN attn : \A i \in DOMAIN attn[h] :
            /\ \A j \in DOMAIN attn[h][i] : IsNum(attn[h][i][j]) /\ attn[h][i][j] >= 0
            /\ Close(Sum(attn[h][i]), ONE)

\* a masked row that is sharpened
RowsAreDistributionsWitness ==
    /\ pc = "done" /\ logits # None
    /\ \E j \in DOMAIN logits[0][0] :
          /\ logits[0][0][j] = -FMAX
          /\ beta[0][0] > ONE
          /\ attn[0][0][j] = 0
          /\ attn[0][0][0] > 0

=============================================================================
